---- MODULE Spec2Model ----
(***************************************************************************)
(* Model of the YouTube transcript summariser (src/app.py): the URL        *)
(* parser get_video_id, the chunker chunk_transcript, the timestamp        *)
(* formatter format_timestamp, the chunk processor process_chunk with the  *)
(* summariser wrapper generate_short_summary, and the request handler      *)
(* summarize with its thread-pool map.                                     *)
(*                                                                         *)
(* Numbers of seconds are Python floats in the source.  A caption entry    *)
(* carries them as the decimal numbers of the transcript: the integer n    *)
(* stands for the decimal n / Scale, so that Sec(3725, 7) with Scale = 10  *)
(* is 3725.7.  The code computes on the floats: ToFloat(n) is the IEEE 754 *)
(* double nearest to n / Scale, and sums, comparisons, // and % are those  *)
(* of doubles (round to nearest, ties to even).  Text the code inspects    *)
(* character by character (timestamps, summaries) is a sequence of         *)
(* one-character strings; text it only passes around (ids, titles) is a    *)
(* TLA+ string.  A URL is given as urlparse returns it: hostname, path     *)
(* (its "/"-separated segments) and the values of the query parameter v,   *)
(* or as the exception urlparse raises on it.                              *)
(***************************************************************************)
EXTENDS Integers, Sequences, FiniteSets, TLC

VARIABLES
    youtube_url,   \* summarize: request.json['url'], as parsed by urlparse
    pc,            \* summarize: position of the handler
    video_id,      \* summarize: result of get_video_id
    transcript,    \* summarize: result of get_transcript
    video_title,   \* summarize: result of get_video_title
    chunks,        \* summarize: result of chunk_transcript
    futures,       \* executor.map: one future per chunk, in submission order
    completion,    \* order in which the chunk tasks completed (chunk indices)
    calls,         \* outbound calls made so far, per external collaborator
    response,      \* the HTTP response of the request
    ck_in,         \* chunk_transcript called alone: its arguments
    ck_out,        \* chunk_transcript called alone: its result
    ts_in,         \* format_timestamp called alone: its argument
    ts_out         \* format_timestamp called alone: its result

vars == <<youtube_url, pc, video_id, transcript, video_title, chunks, futures,
          completion, calls, response, ck_in, ck_out, ts_in, ts_out>>

pipeline_vars == <<youtube_url, pc, video_id, transcript, video_title, chunks,
                   futures, completion, calls, response>>

----------------------------------------------------------------------------
(* Bounds of the model *)

\* resolution of the decimal seconds: n stands for n / Scale seconds
Scale == 10
\* longest transcript (number of caption entries)
MaxLen == 4
\* largest hour count given to format_timestamp alone (three digits at 100)
MaxHours == 100

(* Program constants *)

\* chunk_transcript(transcript, chunk_size=4000)
DefaultChunkSize == 4000

----------------------------------------------------------------------------
(* Values *)

\* w whole seconds and f / Scale of a second
Sec(w, f) == w * Scale + f

\* Python's None and a present value
None == [none |-> TRUE]
Some(x) == [none |-> FALSE, val |-> x]

\* all sequences over S of length at most n
SeqUpTo(S, n) == UNION {[1..k -> S] : k \in 0..n}

RECURSIVE Concat(_)
Concat(seqs) == IF seqs = <<>> THEN <<>> ELSE seqs[1] \o Concat(Tail(seqs))

----------------------------------------------------------------------------
(* Python floats: non-negative IEEE 754 doubles.  A double is m * 2^e with  *)
(* m a natural number of at most 53 bits, written as its bits, lowest      *)
(* first; m is odd, or the double is zero                                  *)

Zeros(k) == [i \in 1..k |-> 0]

RECURSIVE NatToBits(_)
NatToBits(n) == IF n = 0 THEN <<>> ELSE <<n % 2>> \o NatToBits(n \div 2)

RECURSIVE BitsToNat(_)
BitsToNat(bits) == IF bits = <<>> THEN 0 ELSE bits[1] + 2 * BitsToNat(Tail(bits))

\* the bits without their leading (highest) zeros
TrimHigh(bits) ==
    IF \A i \in 1..Len(bits) : bits[i] = 0 THEN <<>>
    ELSE SubSeq(bits, 1, CHOOSE i \in 1..Len(bits) :
                            bits[i] = 1 /\ \A j \in (i + 1)..Len(bits) : bits[j] = 0)

\* m * 2^e with the trailing (lowest) zeros of m moved into e
StripLow(m, e) ==
    IF \A i \in 1..Len(m) : m[i] = 0 THEN [m |-> <<>>, e |-> 0]
    ELSE LET low == CHOOSE i \in 1..Len(m) : m[i] = 1 /\ \A j \in 1..(i - 1) : m[j] = 0
         IN  [m |-> SubSeq(m, low, Len(m)), e |-> e + low - 1]

\* the bits are added LimbBits at a time
LimbBits == 24

Limb == 2 ^ LimbBits

LowLimb(bits) == SubSeq(bits, 1, IF Len(bits) < LimbBits THEN Len(bits) ELSE LimbBits)

HighLimbs(bits) == SubSeq(bits, LimbBits + 1, Len(bits))

\* a + b + carry, with leading zeros
RECURSIVE BitsAddLimbs(_, _, _)
BitsAddLimbs(a, b, carry) ==
    IF a = <<>> /\ b = <<>> THEN NatToBits(carry)
    ELSE LET t == BitsToNat(LowLimb(a)) + BitsToNat(LowLimb(b)) + carry
             low == NatToBits(t % Limb)
         IN  low \o Zeros(LimbBits - Len(low))
                 \o BitsAddLimbs(HighLimbs(a), HighLimbs(b), t \div Limb)

BitsAdd(a, b, carry) == TrimHigh(BitsAddLimbs(a, b, carry))

\* a < b, for bit strings without leading zeros
BitsLess(a, b) ==
    \/ Len(a) < Len(b)
    \/ /\ Len(a) = Len(b)
       /\ \E k \in 1..Len(a) :
              a[k] < b[k] /\ \A j \in (k + 1)..Len(a) : a[j] = b[j]

\* the double nearest to m * 2^e + (something below 2^e when sticky), ties to even
RoundToDouble(m, e, sticky) ==
    IF Len(m) <= 53 THEN StripLow(m, e)
    ELSE LET d == Len(m) - 53
             kept == SubSeq(m, d + 1, Len(m))
             below == sticky \/ \E i \in 1..(d - 1) : m[i] = 1
             up == m[d] = 1 /\ (below \/ kept[1] = 1)
         IN  StripLow(IF up THEN BitsAdd(kept, <<1>>, 0) ELSE kept, e + d)

\* the decimal expansion is read FractionLimbs limbs beyond the point
FractionLimbs == 3

\* the first k limbs of the binary digits of r / Scale (0 <= r < Scale), lowest
\* first
RECURSIVE FractionBits(_, _)
FractionBits(r, k) ==
    IF k = 0 THEN <<>>
    ELSE LET low == NatToBits((r * Limb) \div Scale)
         IN  FractionBits((r * Limb) % Scale, k - 1) \o low \o Zeros(LimbBits - Len(low))

\* what remains of r / Scale below its first k limbs, times Scale
RECURSIVE FractionRest(_, _)
FractionRest(r, k) == IF k = 0 THEN r ELSE FractionRest((r * Limb) % Scale, k - 1)

\* the float of the decimal n / Scale, n >= 0: the nearest double
ToFloat(n) ==
    IF n % Scale = 0 THEN StripLow(NatToBits(n \div Scale), 0)
    ELSE RoundToDouble(TrimHigh(FractionBits(n % Scale, FractionLimbs)
                                    \o NatToBits(n \div Scale)),
                       0 - FractionLimbs * LimbBits,
                       FractionRest(n % Scale, FractionLimbs) # 0)

\* x + y on floats
FloatAdd(x, y) ==
    LET e == IF x.e < y.e THEN x.e ELSE y.e
        mx == IF x.m = <<>> THEN <<>> ELSE Zeros(x.e - e) \o x.m
        my == IF y.m = <<>> THEN <<>> ELSE Zeros(y.e - e) \o y.m
    IN  RoundToDouble(BitsAdd(mx, my, 0), e, FALSE)

\* x < y on floats
FloatLess(x, y) ==
    LET e == IF x.e < y.e THEN x.e ELSE y.e
        mx == IF x.m = <<>> THEN <<>> ELSE Zeros(x.e - e) \o x.m
        my == IF y.m = <<>> THEN <<>> ELSE Zeros(y.e - e) \o y.m
    IN  BitsLess(mx, my)

\* int(x) of a float x >= 0: its floor
FloatToInt(x) ==
    IF x.e >= 0 THEN BitsToNat(Zeros(x.e) \o x.m)
    ELSE BitsToNat(SubSeq(x.m, 1 - x.e, Len(x.m)))

\* the float of a natural number below 2^53
NatToFloat(n) == StripLow(NatToBits(n), 0)

\* x // k for an integer k > 0: the floor of the quotient
FloatFloorDiv(x, k) == NatToFloat(FloatToInt(x) \div k)

\* x % k for an integer k > 0: exact, as fmod is
FloatMod(x, k) ==
    IF x.e >= 0 THEN StripLow(NatToBits(FloatToInt(x) % k), 0)
    ELSE LET frac == SubSeq(x.m \o Zeros(0 - x.e), 1, 0 - x.e)
         IN  StripLow(TrimHigh(frac \o NatToBits(FloatToInt(x) % k)), x.e)

\* x > chunk_size, for a float x >= 0 and the decimal chunk_size / Scale
ExceedsThreshold(x, chunk_size) ==
    IF chunk_size < 0 THEN TRUE ELSE FloatLess(ToFloat(chunk_size), x)

\* x >= chunk_size, for a float x >= 0 and the decimal chunk_size / Scale
ReachesThreshold(x, chunk_size) ==
    IF chunk_size <= 0 THEN TRUE ELSE ~FloatLess(x, ToFloat(chunk_size))

\* the sum of the entries' durations, added as floats from the first entry on
RECURSIVE FloatSum(_, _)
FloatSum(entries, acc) ==
    IF entries = <<>> THEN acc
    ELSE FloatSum(Tail(entries), FloatAdd(acc, ToFloat(entries[1].duration)))

SumDurations(entries) == FloatSum(entries, ToFloat(0))

----------------------------------------------------------------------------
(* chunk_transcript, src/app.py:44-62 *)

\* the for loop from its k-th iteration on, then the trailing partial chunk
\* dropped: the result without lines 59-60
RECURSIVE chunk_loop_no_tail(_, _, _, _, _, _)
chunk_loop_no_tail(entries, chunk_size, k, acc, current_chunk, current_chunk_duration) ==
    IF k > Len(entries) THEN acc
    ELSE LET entry == entries[k]
             cc == Append(current_chunk, entry)
             cd == FloatAdd(current_chunk_duration, ToFloat(entry.duration))
         IN  IF ReachesThreshold(cd, chunk_size)
             THEN chunk_loop_no_tail(entries, chunk_size, k + 1, Append(acc, cc), <<>>, ToFloat(0))
             ELSE chunk_loop_no_tail(entries, chunk_size, k + 1, acc, cc, cd)

\* the loop closing a chunk only when the sum exceeds the threshold (> for >=)
RECURSIVE chunk_loop_strict(_, _, _, _, _, _)
chunk_loop_strict(entries, chunk_size, k, acc, current_chunk, current_chunk_duration) ==
    IF k > Len(entries)
    THEN IF current_chunk # <<>> THEN Append(acc, current_chunk) ELSE acc
    ELSE LET entry == entries[k]
             cc == Append(current_chunk, entry)
             cd == FloatAdd(current_chunk_duration, ToFloat(entry.duration))
         IN  IF ExceedsThreshold(cd, chunk_size)
             THEN chunk_loop_strict(entries, chunk_size, k + 1, Append(acc, cc), <<>>, ToFloat(0))
             ELSE chunk_loop_strict(entries, chunk_size, k + 1, acc, cc, cd)

\* the for loop of lines 50-57 from its k-th iteration on, then lines 59-62.
\* entries carry non-negative decimal durations; chunk_size is a decimal too
RECURSIVE chunk_loop(_, _, _, _, _, _)
chunk_loop(entries, chunk_size, k, acc, current_chunk, current_chunk_duration) ==
    IF k > Len(entries)
    THEN IF current_chunk # <<>> THEN Append(acc, current_chunk) ELSE acc
    ELSE LET entry == entries[k]
             cc == Append(current_chunk, entry)
             cd == FloatAdd(current_chunk_duration, ToFloat(entry.duration))
         IN  IF ReachesThreshold(cd, chunk_size)
             THEN chunk_loop(entries, chunk_size, k + 1, Append(acc, cc), <<>>, ToFloat(0))
             ELSE chunk_loop(entries, chunk_size, k + 1, acc, cc, cd)

chunk_transcript_no_tail(entries, chunk_size) ==
    chunk_loop_no_tail(entries, chunk_size, 1, <<>>, <<>>, ToFloat(0))

chunk_transcript_strict(entries, chunk_size) ==
    chunk_loop_strict(entries, chunk_size, 1, <<>>, <<>>, ToFloat(0))

chunk_transcript(entries, chunk_size) ==
    chunk_loop(entries, chunk_size, 1, <<>>, <<>>, ToFloat(0))

----------------------------------------------------------------------------
(* format_timestamp, src/app.py:98-103 *)

Digit(d) == <<"0", "1", "2", "3", "4", "5", "6", "7", "8", "9">>[d + 1]

\* the decimal digits of n >= 0
RECURSIVE Decimal(_)
Decimal(n) == IF n < 10 THEN <<Digit(n)>> ELSE Append(Decimal(n \div 10), Digit(n % 10))

\* f"{n:02d}" for n >= 0: at least two digits, zero-padded
format_02d(n) == IF n < 10 THEN <<"0">> \o Decimal(n) ELSE Decimal(n)

\* minutes computed without the "% 3600"
format_timestamp_no_mod(seconds) ==
    LET hours == FloatToInt(FloatFloorDiv(seconds, 3600))
        minutes == FloatToInt(FloatFloorDiv(seconds, 60))
        secs == FloatToInt(FloatMod(seconds, 60))
    IN  format_02d(hours) \o <<":">> \o format_02d(minutes) \o <<":">> \o format_02d(secs)

\* seconds is a float >= 0
format_timestamp(seconds) ==
    LET hours == FloatToInt(FloatFloorDiv(seconds, 3600))
        minutes == FloatToInt(FloatFloorDiv(FloatMod(seconds, 3600), 60))
        secs == FloatToInt(FloatMod(seconds, 60))
    IN  format_02d(hours) \o <<":">> \o format_02d(minutes) \o <<":">> \o format_02d(secs)

----------------------------------------------------------------------------
(* get_video_id, src/app.py:20-33 *)

\* the value a function returned, or the fact that it raised
Return(x) == [raised |-> FALSE, value |-> x]
Raise(e) == [raised |-> TRUE, value |-> e]

\* Python truthiness of an optional string: None and '' are falsy
TruthyStr(opt) == ~opt.none /\ opt.val # ""

\* Python truthiness of an optional list: None and [] are falsy
TruthyList(opt) == ~opt.none /\ opt.val # <<>>

\* "/".join(segments): the path without its leading "/"
RECURSIVE JoinSlash(_)
JoinSlash(segments) ==
    IF segments = <<>> THEN ""
    ELSE IF Len(segments) = 1 THEN segments[1]
    ELSE segments[1] \o "/" \o JoinSlash(Tail(segments))

\* path[:n] == '/<word>/': the first segment is <word> and a "/" follows it
PathStartsWith(path, word) == Len(path) >= 2 /\ path[1] = word

\* url: what urlparse(url) (line 22) makes of the submitted value: the exception it
\* raises, or the hostname, the path segments and the values of the query's v
get_video_id(url) ==
    IF url.error # "" THEN Raise(url.error)
    ELSE IF url.hostname = "youtu.be" THEN Return(Some(JoinSlash(url.path)))
    ELSE IF url.hostname \in {"www.youtube.com", "youtube.com"}
    THEN IF url.path = <<"watch">>
         THEN IF url.v = <<>> THEN Raise("KeyError") ELSE Return(Some(url.v[1]))
         ELSE IF PathStartsWith(url.path, "embed") THEN Return(Some(url.path[2]))
         ELSE IF PathStartsWith(url.path, "v") THEN Return(Some(url.path[2]))
         ELSE Return(None)
    ELSE Return(None)

----------------------------------------------------------------------------
(* get_transcript, src/app.py:35-42, and get_video_title, src/app.py:117-126 *)

\* source: what YouTubeTranscriptApi.get_transcript did, a list or an exception
get_transcript(source) == IF source.raised THEN None ELSE Some(source.value)

\* the title lookup's exception let through: no try/except
get_video_title_unguarded(id, source) ==
    IF source.raised THEN Raise("RequestException") ELSE Return(source.value)

\* source: what requests.get(url).json()['title'] did, a title or an exception
get_video_title(id, source) ==
    IF source.raised THEN Return("Video " \o id) ELSE Return(source.value)

----------------------------------------------------------------------------
(* generate_short_summary, src/app.py:64-96 *)

\* a character is a one-character string, or the name of its code point where
\* it cannot be written in a string; the bullet is U+2022
Bullet == "BULLET"

\* the characters str.strip() removes: those for which str.isspace() holds
Whitespace ==
    { " ", "\t", "\n", "\r", "\f", "U+000B", "U+001C", "U+001D", "U+001E", "U+001F",
      "U+0085", "U+00A0", "U+1680", "U+2000", "U+2001", "U+2002", "U+2003", "U+2004",
      "U+2005", "U+2006", "U+2007", "U+2008", "U+2009", "U+200A", "U+2028", "U+2029",
      "U+202F", "U+205F", "U+3000" }

\* str.split('\n\n'): cur is the piece being read
RECURSIVE split_blank(_, _)
split_blank(s, cur) ==
    IF s = <<>> THEN <<cur>>
    ELSE IF Len(s) >= 2 /\ s[1] = "\n" /\ s[2] = "\n"
    THEN <<cur>> \o split_blank(SubSeq(s, 3, Len(s)), <<>>)
    ELSE split_blank(Tail(s), Append(cur, s[1]))

RECURSIVE lstrip(_)
lstrip(s) == IF s # <<>> /\ s[1] \in Whitespace THEN lstrip(Tail(s)) ELSE s

RECURSIVE rstrip(_)
rstrip(s) ==
    IF s # <<>> /\ s[Len(s)] \in Whitespace THEN rstrip(SubSeq(s, 1, Len(s) - 1)) ELSE s

strip(s) == rstrip(lstrip(s))

\* lines 86-91: the points stripped, bullet-prefixed, the empty ones dropped
RECURSIVE format_points(_)
format_points(points) ==
    IF points = <<>> THEN <<>>
    ELSE LET stripped == strip(points[1])
             point == IF stripped # <<>> /\ stripped[1] # Bullet
                      THEN <<Bullet, " ">> \o stripped ELSE stripped
         IN  IF point # <<>> THEN <<point>> \o format_points(Tail(points))
             ELSE format_points(Tail(points))

\* '\n'.join(points)
RECURSIVE join_newline(_)
join_newline(points) ==
    IF points = <<>> THEN <<>>
    ELSE IF Len(points) = 1 THEN points[1]
    ELSE points[1] \o <<"\n">> \o join_newline(Tail(points))

\* the summariser's exception let through: no try/except
generate_short_summary_unguarded(text, title, chunk_index, total_chunks, api) ==
    IF api.raised THEN Raise("APIError")
    ELSE Return(Some(join_newline(format_points(split_blank(api.value, <<>>)))))

\* api: what client.chat.completions.create did with the prompt (built from text,
\* title, chunk_index and total_chunks): the content or an exception
generate_short_summary(text, title, chunk_index, total_chunks, api) ==
    IF api.raised THEN Return(None)
    ELSE Return(Some(join_newline(format_points(split_blank(api.value, <<>>)))))

----------------------------------------------------------------------------
(* process_chunk, src/app.py:105-115 *)

\* " ".join(texts)
RECURSIVE join_space(_)
join_space(texts) ==
    IF texts = <<>> THEN ""
    ELSE IF Len(texts) = 1 THEN texts[1]
    ELSE texts[1] \o " " \o join_space(Tail(texts))

\* end_time taken from the last entry's start alone
process_chunk_no_duration(chunk, i, title, total_chunks, api) ==
    LET chunk_text == join_space([k \in 1..Len(chunk) |-> chunk[k].text])
        chunk_start_time == ToFloat(chunk[1].start)
        chunk_end_time == ToFloat(chunk[Len(chunk)].start)
        summary == generate_short_summary(chunk_text, title, i, total_chunks, api)
    IN  IF summary.raised THEN summary
        ELSE Return([chunk_index |-> i,
                     start_time |-> format_timestamp(chunk_start_time),
                     end_time |-> format_timestamp(chunk_end_time),
                     summary |-> summary.value])

\* i is the 0-based chunk index
process_chunk(chunk, i, title, total_chunks, api) ==
    LET chunk_text == join_space([k \in 1..Len(chunk) |-> chunk[k].text])
        chunk_start_time == ToFloat(chunk[1].start)
        chunk_end_time == FloatAdd(ToFloat(chunk[Len(chunk)].start),
                                   ToFloat(chunk[Len(chunk)].duration))
        summary == generate_short_summary(chunk_text, title, i, total_chunks, api)
    IN  IF summary.raised THEN summary
        ELSE Return([chunk_index |-> i,
                     start_time |-> format_timestamp(chunk_start_time),
                     end_time |-> format_timestamp(chunk_end_time),
                     summary |-> summary.value])

----------------------------------------------------------------------------
(* Inputs *)

Url(hostname, path, v) == [error |-> "", hostname |-> hostname, path |-> path, v |-> v]

\* a submitted value urlparse raises on
Unparsable(error) == [error |-> error, hostname |-> "", path |-> <<>>, v |-> <<>>]

\* the submitted URLs: each recognised form, and forms that carry no identifier
Urls ==
    { Url("youtu.be", <<"ID1">>, <<>>),                   \* https://youtu.be/ID1
      Url("youtu.be", <<>>, <<>>),                        \* https://youtu.be
      Url("youtu.be", <<"">>, <<>>),                      \* https://youtu.be/
      Url("www.youtube.com", <<"watch">>, <<"ID2">>),     \* .../watch?v=ID2
      Url("www.youtube.com", <<"watch">>, <<>>),          \* .../watch
      Url("youtube.com", <<"embed", "ID1">>, <<>>),       \* .../embed/ID1
      Url("youtube.com", <<"embed", "">>, <<>>),          \* .../embed/
      Url("youtube.com", <<"embed">>, <<>>),              \* .../embed
      Url("www.youtube.com", <<"v", "ID2">>, <<>>),       \* .../v/ID2
      Url("www.youtube.com", <<"playlist">>, <<>>),       \* .../playlist
      Url("m.youtube.com", <<"watch">>, <<"ID1">>),       \* m.youtube.com/watch?v=ID1
      Url("example.com", <<"notyoutube">>, <<>>),         \* example.com/notyoutube
      Unparsable("ValueError"),                           \* https://youtu.be]/ID1
      Unparsable("AttributeError") }                      \* 123, not a string

\* caption entries of the transcripts the Transcript Source returns: the starts,
\* and the durations an entry at each start may have
Starts == <<Sec(0, 0), Sec(1499, 3), Sec(3436, 4), Sec(4000, 0), Sec(8000, 0)>>
Texts == <<"a", "b", "c", "d", "e">>
Durations ==
    << {Sec(1499, 3), Sec(DefaultChunkSize, 0)},
       {Sec(1937, 1)},
       {Sec(563, 6), Sec(100, 7)},
       {Sec(1, 0), Sec(DefaultChunkSize, 0)},
       {Sec(100, 7)} >>

Entry(text, start, duration) == [text |-> text, start |-> start, duration |-> duration]

Entries ==
    UNION {{Entry(Texts[k], Starts[k], d) : d \in Durations[k]} : k \in DOMAIN Starts}

\* transcripts of at most MaxLen entries, ordered by start ascending
RECURSIVE TranscriptsFrom(_, _)
TranscriptsFrom(k, n) ==
    IF n = 0 \/ k > Len(Starts) THEN {<<>>}
    ELSE TranscriptsFrom(k + 1, n)
         \cup {<<e>> \o t : e \in {x \in Entries : x.start = Starts[k]},
                             t \in TranscriptsFrom(k + 1, n - 1)}

Transcripts == TranscriptsFrom(1, MaxLen)

\* what the Transcript Source does: an exception, or a transcript
TranscriptOutcomes == {Raise("TranscriptsDisabled")} \cup {Return(t) : t \in Transcripts}

\* what the Metadata Source does: an exception, or a title
TitleOutcomes == {Raise("RequestException"), Return("Title")}

\* what the Summarizer backend does: an exception, or the content of its message
ApiOutcomes ==
    { Raise("APIError"),
      Return(<<"\r", "x", "\r", "\n", "\r", "\n", "y", "U+00A0", "\n", "\n",
               Bullet, " ", "z", "\f", " ", "\n", "\n", "\n">>),
      Return(<<"\r">>) }

\* chunk_transcript called alone: entries and thresholds
ChunkEntries ==
    {Entry("a", 0, d) : d \in {0, Sec(0, 1), Sec(0, 7), Sec(2, 0), Sec(DefaultChunkSize, 0)}}
        \cup {Entry("b", 0, Sec(0, 7))}
ChunkSizes == {0 - Sec(1, 0), 0, Sec(0, 8), Sec(2, 0), Sec(DefaultChunkSize, 0)}

\* format_timestamp called alone: non-negative numbers of seconds
Seconds ==
    {Sec(h * 3600 + m * 60 + s, f) :
        h \in 0..MaxHours, m \in {0, 2, 59}, s \in {0, 5, 59}, f \in {0, 7, Scale - 1}}

----------------------------------------------------------------------------
(* The request handler summarize, src/app.py:132-152 *)

Pending == [status |-> 0, kind |-> "pending", error |-> "", records |-> <<>>]
ErrorResponse(status, kind, error) ==
    [status |-> status, kind |-> kind, error |-> error, records |-> <<>>]
Success(records) == [status |-> 200, kind |-> "success", error |-> "", records |-> records]

\* the outbound calls: how many to the Transcript Source and to the Metadata Source,
\* whether the title lookup failed, and how many to the Summarizer for each chunk
NoCalls == [transcript |-> 0, metadata |-> 0, metadata_failed |-> FALSE, summarizer |-> <<>>]

Queued == [state |-> "queued", api_failed |-> FALSE, raised |-> FALSE, value |-> None]

PipelineIdle ==
    /\ youtube_url = Url("", <<>>, <<>>)
    /\ pc = "idle"
    /\ video_id = None
    /\ transcript = None
    /\ video_title = ""
    /\ chunks = <<>>
    /\ futures = <<>>
    /\ completion = <<>>
    /\ calls = NoCalls
    /\ response = Pending

ChunkIdle ==
    /\ ck_in = [transcript |-> <<>>, chunk_size |-> 0]
    /\ ck_out = [returned |-> FALSE, value |-> <<>>]

FormatIdle ==
    /\ ts_in = 0
    /\ ts_out = <<>>

Init ==
    /\ youtube_url \in Urls
    /\ pc = "get_video_id"
    /\ video_id = None
    /\ transcript = None
    /\ video_title = ""
    /\ chunks = <<>>
    /\ futures = <<>>
    /\ completion = <<>>
    /\ calls = NoCalls
    /\ response = Pending
    /\ ChunkIdle
    /\ FormatIdle

\* lines 134-138
ExtractVideoId ==
    /\ pc = "get_video_id"
    /\ LET r == get_video_id(youtube_url)
       IN  IF r.raised
           THEN /\ response' = ErrorResponse(500, "InternalServerError", r.value)
                /\ pc' = "done"
                /\ UNCHANGED video_id
           ELSE /\ video_id' = r.value
                /\ IF ~TruthyStr(r.value)
                   THEN /\ response' = ErrorResponse(400, "InvalidInput", "Invalid YouTube URL")
                        /\ pc' = "done"
                   ELSE /\ pc' = "get_transcript"
                        /\ UNCHANGED response
    /\ UNCHANGED <<youtube_url, transcript, video_title, chunks, futures, completion,
                   calls, ck_in, ck_out, ts_in, ts_out>>

\* lines 140-142
FetchTranscript ==
    /\ pc = "get_transcript"
    /\ \E source \in TranscriptOutcomes :
         LET t == get_transcript(source)
         IN  /\ transcript' = t
             /\ calls' = [calls EXCEPT !.transcript = @ + 1]
             /\ IF ~TruthyList(t)
                THEN /\ response' = ErrorResponse(400, "TranscriptUnavailable",
                                                  "Failed to fetch transcript")
                     /\ pc' = "done"
                ELSE /\ pc' = "get_video_title"
                     /\ UNCHANGED response
    /\ UNCHANGED <<youtube_url, video_id, video_title, chunks, futures, completion,
                   ck_in, ck_out, ts_in, ts_out>>

\* line 144
FetchTitle ==
    /\ pc = "get_video_title"
    /\ \E source \in TitleOutcomes :
         LET r == get_video_title(video_id.val, source)
         IN  /\ calls' = [calls EXCEPT !.metadata = @ + 1,
                                       !.metadata_failed = source.raised]
             /\ IF r.raised
                THEN /\ response' = ErrorResponse(500, "InternalServerError", r.value)
                     /\ pc' = "done"
                     /\ UNCHANGED video_title
                ELSE /\ video_title' = r.value
                     /\ pc' = "chunk_transcript"
                     /\ UNCHANGED response
    /\ UNCHANGED <<youtube_url, video_id, transcript, chunks, futures, completion,
                   ck_in, ck_out, ts_in, ts_out>>

\* lines 146-149: the chunks; the pool starts with no task
ChunkTranscript ==
    /\ pc = "chunk_transcript"
    /\ chunks' = chunk_transcript(transcript.val, Sec(DefaultChunkSize, 0))
    /\ pc' = "map"
    /\ UNCHANGED <<youtube_url, video_id, transcript, video_title, futures, completion,
                   calls, response, ck_in, ck_out, ts_in, ts_out>>

\* line 150: executor.map submits the task of the next chunk, while the worker
\* threads run the tasks submitted before it
Submit ==
    /\ pc = "map"
    /\ Len(futures) < Len(chunks)
    /\ futures' = Append(futures, Queued)
    /\ calls' = [calls EXCEPT !.summarizer = Append(@, 0)]
    /\ UNCHANGED <<youtube_url, pc, video_id, transcript, video_title, chunks,
                   completion, response, ck_in, ck_out, ts_in, ts_out>>

\* a retry: a task whose Summarizer call failed is run again
TaskStartRetry(j) ==
    /\ pc = "map"
    /\ \/ futures[j].state = "queued"
       \/ futures[j].state = "done" /\ futures[j].api_failed
    /\ futures' = [futures EXCEPT ![j].state = "running"]
    /\ calls' = [calls EXCEPT !.summarizer[j] = @ + 1]
    /\ UNCHANGED <<youtube_url, pc, video_id, transcript, video_title, chunks,
                   completion, response, ck_in, ck_out, ts_in, ts_out>>

\* a worker thread takes task j and sends its request to the Summarizer (line 75)
TaskStart(j) ==
    /\ pc = "map"
    /\ futures[j].state = "queued"
    /\ futures' = [futures EXCEPT ![j].state = "running"]
    /\ calls' = [calls EXCEPT !.summarizer[j] = @ + 1]
    /\ UNCHANGED <<youtube_url, pc, video_id, transcript, video_title, chunks,
                   completion, response, ck_in, ck_out, ts_in, ts_out>>

\* the Summarizer answers task j and process_chunk returns (lines 76-96, 110-115)
TaskFinish(j) ==
    /\ pc = "map"
    /\ futures[j].state = "running"
    /\ \E api \in ApiOutcomes :
         LET r == process_chunk(chunks[j], j - 1, video_title, Len(chunks), api)
         IN  futures' = [futures EXCEPT ![j] =
                            [state |-> "done", api_failed |-> api.raised,
                             raised |-> r.raised,
                             value |-> IF r.raised THEN None ELSE Some(r.value)]]
    /\ completion' = Append(completion, j)
    /\ UNCHANGED <<youtube_url, pc, video_id, transcript, video_title, chunks,
                   calls, response, ck_in, ck_out, ts_in, ts_out>>

\* the results taken as the tasks completed (as_completed for executor.map)
as_completed_results == [k \in 1..Len(completion) |-> futures[completion[k]].value.val]

\* list(executor.map(...)): the results in submission order
map_results == [j \in 1..Len(futures) |-> futures[j].value.val]

\* lines 150-152: every task is submitted and has completed; an exception of a
\* task is raised again
Respond ==
    /\ pc = "map"
    /\ Len(futures) = Len(chunks)
    /\ \A j \in 1..Len(futures) : futures[j].state = "done"
    /\ IF \E j \in 1..Len(futures) : futures[j].raised
       THEN response' = ErrorResponse(500, "InternalServerError", "APIError")
       ELSE response' = Success(map_results)
    /\ pc' = "done"
    /\ UNCHANGED <<youtube_url, video_id, transcript, video_title, chunks, futures,
                   completion, calls, ck_in, ck_out, ts_in, ts_out>>

Next ==
    \/ ExtractVideoId
    \/ FetchTranscript
    \/ FetchTitle
    \/ ChunkTranscript
    \/ Submit
    \/ \E j \in 1..Len(futures) : TaskStart(j)
    \/ \E j \in 1..Len(futures) : TaskFinish(j)
    \/ Respond

Spec == Init /\ [][Next]_vars

----------------------------------------------------------------------------
(* chunk_transcript called alone, with every threshold *)

InitChunk ==
    /\ PipelineIdle
    /\ FormatIdle
    /\ ck_in \in [transcript : SeqUpTo(ChunkEntries, MaxLen), chunk_size : ChunkSizes]
    /\ ck_out = [returned |-> FALSE, value |-> <<>>]

ChunkCall ==
    /\ ~ck_out.returned
    /\ ck_out' = [returned |-> TRUE,
                  value |-> chunk_transcript(ck_in.transcript, ck_in.chunk_size)]
    /\ UNCHANGED <<pipeline_vars, ck_in, ts_in, ts_out>>

NextChunk == ChunkCall

SpecChunk == InitChunk /\ [][NextChunk]_vars

----------------------------------------------------------------------------
(* format_timestamp called alone *)

InitFormat ==
    /\ PipelineIdle
    /\ ChunkIdle
    /\ ts_in \in Seconds
    /\ ts_out = <<>>

FormatCall ==
    /\ ts_out = <<>>
    /\ ts_out' = format_timestamp(ToFloat(ts_in))
    /\ UNCHANGED <<pipeline_vars, ck_in, ck_out, ts_in>>

NextFormat == FormatCall

SpecFormat == InitFormat /\ [][NextFormat]_vars

----------------------------------------------------------------------------
(* Reading a timestamp back *)

Digits == {Digit(d) : d \in 0..9}

DigitValue(c) == CHOOSE d \in 0..9 : Digit(d) = c

IsDigits(ds) == ds # <<>> /\ \A k \in 1..Len(ds) : ds[k] \in Digits

RECURSIVE NumberOf(_)
NumberOf(ds) ==
    IF ds = <<>> THEN 0
    ELSE NumberOf(SubSeq(ds, 1, Len(ds) - 1)) * 10 + DigitValue(ds[Len(ds)])

\* the fields of s between the separators sep; cur is the field being read
RECURSIVE FieldsOf(_, _, _)
FieldsOf(s, sep, cur) ==
    IF s = <<>> THEN <<cur>>
    ELSE IF s[1] = sep THEN <<cur>> \o FieldsOf(Tail(s), sep, <<>>)
    ELSE FieldsOf(Tail(s), sep, Append(cur, s[1]))

\* the whole seconds an "HH:MM:SS" timestamp stands for
WholeSecondsOf(ts) ==
    LET f == FieldsOf(ts, ":", <<>>)
    IN  NumberOf(f[1]) * 3600 + NumberOf(f[2]) * 60 + NumberOf(f[3])

----------------------------------------------------------------------------
(* Claims *)

\* C1 (SpecChunk). Reconstruction: for every caption-entry sequence and every
\* threshold, the chunks chunk_transcript returns, concatenated in order, are
\* exactly the input sequence, and every chunk is non-empty.
Reconstruction ==
    ck_out.returned =>
        /\ Concat(ck_out.value) = ck_in.transcript
        /\ \A i \in 1..Len(ck_out.value) : ck_out.value[i] # <<>>

\* C1 witness: a call that returned several chunks, one of several entries, the
\* last one a trailing partial chunk below the threshold.
ReconstructionWitness ==
    /\ ck_out.returned
    /\ Len(ck_out.value) >= 2
    /\ Len(ck_out.value[1]) >= 2
    /\ ~ReachesThreshold(SumDurations(ck_out.value[Len(ck_out.value)]), ck_in.chunk_size)

\* C2 as stated (SpecChunk). For every caption-entry sequence and threshold, every
\* chunk but the last has a duration sum >= the threshold, and without its last
\* entry a sum below the threshold.
ThresholdRespectAnyThreshold ==
    ck_out.returned =>
        \A i \in 1..(Len(ck_out.value) - 1) :
            LET chunk == ck_out.value[i]
            IN  /\ ReachesThreshold(SumDurations(chunk), ck_in.chunk_size)
                /\ ~ReachesThreshold(SumDurations(SubSeq(chunk, 1, Len(chunk) - 1)),
                                     ck_in.chunk_size)

\* C2 amended (SpecChunk). For every caption-entry sequence and every positive
\* threshold, every chunk but the last has a duration sum >= the threshold, and
\* every proper prefix of it (the chunk without its last entry among them) has a
\* sum below the threshold: the chunk closed at the first entry that reached it.
ThresholdRespectPositiveThreshold ==
    (ck_out.returned /\ ck_in.chunk_size > 0) =>
        \A i \in 1..(Len(ck_out.value) - 1) :
            LET chunk == ck_out.value[i]
            IN  /\ ReachesThreshold(SumDurations(chunk), ck_in.chunk_size)
                /\ \A m \in 0..(Len(chunk) - 1) :
                       ~ReachesThreshold(SumDurations(SubSeq(chunk, 1, m)), ck_in.chunk_size)

\* C2 witness: a positive threshold, and a non-final chunk of several entries whose
\* sum overshoots the threshold.
ThresholdRespectWitness ==
    /\ ck_out.returned
    /\ ck_in.chunk_size > 0
    /\ Len(ck_out.value) >= 2
    /\ Len(ck_out.value[1]) >= 2
    /\ ExceedsThreshold(SumDurations(ck_out.value[1]), ck_in.chunk_size)

\* C3 (Spec). Index fidelity: a request that reached chunk processing with N chunks
\* ends with a success response of N records, record i carrying chunk_index i
\* (0-based), in whatever order the tasks completed.
IndexFidelity ==
    (pc = "done" /\ futures # <<>>) =>
        /\ response.kind = "success"
        /\ Len(response.records) = Len(chunks)
        /\ \A j \in 1..Len(response.records) : response.records[j].chunk_index = j - 1

\* C3 witness: a finished request of three chunks whose tasks completed out of
\* submission order.
IndexFidelityWitness ==
    /\ pc = "done"
    /\ response.kind = "success"
    /\ Len(response.records) = 3
    /\ completion = <<3, 1, 2>>

\* C4 (Spec). Partial failure isolation: a request that reached chunk processing
\* ends with a success response in which record k has a null summary exactly when
\* the Summarizer call for chunk k failed; every other record has a summary.
PartialFailureIsolation ==
    (pc = "done" /\ futures # <<>>) =>
        /\ response.kind = "success"
        /\ Len(response.records) = Len(futures)
        /\ \A j \in 1..Len(futures) :
               futures[j].api_failed <=> response.records[j].summary.none

\* C4 witness: a finished request of three chunks where the call failed for the
\* second chunk alone, whose record has no summary while the others have one.
PartialFailureWitness ==
    /\ pc = "done"
    /\ Len(futures) = 3
    /\ \A j \in 1..3 : futures[j].api_failed <=> (j = 2)
    /\ response.kind = "success"
    /\ response.records[2].summary.none
    /\ ~response.records[1].summary.none
    /\ ~response.records[3].summary.none

\* C5 as stated (Spec). Empty input: when the Transcript Source returned an empty
\* caption sequence, no chunk is made, no Summarizer call is dispatched, and the
\* request ends with a success response holding an empty record list.
EmptyTranscriptEmptyRecords ==
    (pc = "done" /\ transcript = Some(<<>>)) =>
        /\ chunks = <<>>
        /\ calls.summarizer = <<>>
        /\ response.kind = "success"
        /\ response.records = <<>>

\* the recognised URL forms that carry an identifier (spec section 6)
Recognized(url) ==
    \/ url.error = "" /\ url.hostname = "youtu.be" /\ JoinSlash(url.path) # ""
    \/ /\ url.error = ""
       /\ url.hostname \in {"www.youtube.com", "youtube.com"}
       /\ \/ url.path = <<"watch">> /\ url.v # <<>> /\ url.v[1] # ""
          \/ Len(url.path) >= 2 /\ url.path[1] \in {"embed", "v"} /\ url.path[2] # ""

\* C6 as stated (Spec). Invalid URL: a request whose URL is none of the recognised
\* forms carrying an identifier never calls the Transcript Source, the Metadata
\* Source or the Summarizer, and ends with the InvalidInput error response.
InvalidUrlRejected ==
    ~Recognized(youtube_url) =>
        /\ calls = NoCalls
        /\ pc = "done" => response.kind = "InvalidInput"

\* C7 (Spec). Metadata failure is never surfaced: once the identifier is valid and
\* the transcript available, a failed title lookup leaves the fallback title
\* "Video <id>", the request goes on to chunking and summarization and ends with a
\* success response; a non-success response only ever comes from an identifier
\* that could not be extracted or a transcript that is unavailable.
MetadataFailureNotSurfaced ==
    /\ calls.metadata = 1 =>
           /\ TruthyStr(video_id) /\ TruthyList(transcript)
           /\ pc \in {"chunk_transcript", "map", "done"}
           /\ pc \in {"map", "done"} => chunks # <<>> /\ Concat(chunks) = transcript.val
           /\ calls.metadata_failed => video_title = "Video " \o video_id.val
           /\ pc = "done" => Len(futures) = Len(chunks) /\ response.kind = "success"
    /\ (pc = "done" /\ response.kind # "success") =>
           ~TruthyStr(video_id) \/ ~TruthyList(transcript)
    /\ (pc \in {"get_video_title", "chunk_transcript", "map"}) => response = Pending

\* C7 witness: a finished request whose title lookup failed, answered with success
\* under the fallback title.
MetadataFailureWitness ==
    /\ pc = "done"
    /\ calls.metadata_failed
    /\ video_title = "Video ID1"
    /\ response.kind = "success"
    /\ Len(response.records) >= 2

\* C8 (SpecFormat). Timestamp formatting: for s >= 0 seconds format_timestamp gives
\* "H:M:S" with H = floor(s) div 3600 in at least two digits, M = (floor(s) mod
\* 3600) div 60 and S = floor(s) mod 60 in two digits each, zero-padded, so that
\* H*3600 + M*60 + S = floor(s); 3725 and 3725.7 give "01:02:05".
TimestampFormatting ==
    ts_out # <<>> =>
        LET f == FieldsOf(ts_out, ":", <<>>)
            floor == ts_in \div Scale
            H == floor \div 3600
            M == (floor % 3600) \div 60
            S == floor % 60
        IN  /\ Len(f) = 3
            /\ \A k \in 1..3 : IsDigits(f[k])
            /\ Len(f[1]) >= 2 /\ (Len(f[1]) > 2 => f[1][1] # "0")
            /\ Len(f[2]) = 2 /\ Len(f[3]) = 2
            /\ NumberOf(f[1]) = H
            /\ NumberOf(f[2]) = M /\ M \in 0..59
            /\ NumberOf(f[3]) = S /\ S \in 0..59
            /\ NumberOf(f[1]) * 3600 + NumberOf(f[2]) * 60 + NumberOf(f[3]) = floor
            /\ floor = 3725 => ts_out = <<"0", "1", ":", "0", "2", ":", "0", "5">>

\* C8 witness: 3725.7 formatted as "01:02:05".
TimestampFormattingWitness ==
    /\ ts_in = Sec(3725, 7)
    /\ ts_out = <<"0", "1", ":", "0", "2", ":", "0", "5">>

\* C9 (Spec). One Summarizer call per chunk, no retry: no chunk ever has more than
\* one Summarizer call, a chunk has its call exactly when its task has started, a
\* request that reached chunk processing with N chunks ends with exactly one call
\* for each of the N chunks whether the calls failed or not, and no Summarizer call
\* is made before the transcript was fetched successfully.
OneSummarizerCallPerChunk ==
    /\ Len(calls.summarizer) = Len(futures)
    /\ \A j \in 1..Len(futures) :
           /\ calls.summarizer[j] <= 1
           /\ calls.summarizer[j] = 1 <=> futures[j].state # "queued"
    /\ (pc = "done" /\ futures # <<>>) =>
           /\ Len(calls.summarizer) = Len(chunks)
           /\ \A j \in 1..Len(chunks) : calls.summarizer[j] = 1
    /\ calls.summarizer # <<>> => calls.transcript = 1 /\ TruthyList(transcript)

\* C9 witness: a finished request of three chunks, the call for the first failed,
\* one call made for each chunk.
OneSummarizerCallWitness ==
    /\ pc = "done"
    /\ Len(chunks) = 3
    /\ futures[1].api_failed
    /\ calls.summarizer = <<1, 1, 1>>

\* a transcript ordered by start, its entries not overlapping, durations >= 0
OrderedNonOverlapping(t) ==
    /\ \A k \in 1..Len(t) : t[k].duration >= 0
    /\ \A k \in 1..(Len(t) - 1) : t[k].start + t[k].duration <= t[k + 1].start

\* start + duration of an entry, as line 108 adds them
EndOf(entry) == FloatAdd(ToFloat(entry.start), ToFloat(entry.duration))

\* C10 (Spec). Record time range: record i of a success response has start_time =
\* the formatted start of the first entry of chunk i and end_time = the formatted
\* start + duration of its last entry; for a transcript ordered by start and not
\* overlapping, each record starts no later than it ends and ends no later than
\* the next record starts, in whole seconds.
RecordTimeRange ==
    (pc = "done" /\ response.kind = "success") =>
        LET rs == response.records
        IN  /\ Len(rs) = Len(chunks)
            /\ \A j \in 1..Len(rs) :
                   LET chunk == chunks[j]
                       last == chunk[Len(chunk)]
                   IN  /\ rs[j].start_time = format_timestamp(ToFloat(chunk[1].start))
                       /\ rs[j].end_time = format_timestamp(EndOf(last))
                       /\ WholeSecondsOf(rs[j].start_time) = chunk[1].start \div Scale
                       /\ WholeSecondsOf(rs[j].end_time) = FloatToInt(EndOf(last))
            /\ OrderedNonOverlapping(transcript.val) =>
                   /\ \A j \in 1..Len(rs) :
                          WholeSecondsOf(rs[j].start_time) <= WholeSecondsOf(rs[j].end_time)
                   /\ \A j \in 1..(Len(rs) - 1) :
                          WholeSecondsOf(rs[j].end_time) <= WholeSecondsOf(rs[j + 1].start_time)

\* C10 witness: the transcript a (0, 4000), d (4000, 4000), e (8000, 100.7): three
\* records, 00:00:00 to 01:06:40, 01:06:40 to 02:13:20 and 02:13:20 to 02:15:00.
RecordTimeRangeWitness ==
    /\ pc = "done"
    /\ response.kind = "success"
    /\ OrderedNonOverlapping(transcript.val)
    /\ Len(transcript.val) = 3
    /\ Len(response.records) = 3
    /\ response.records[1].start_time = <<"0", "0", ":", "0", "0", ":", "0", "0">>
    /\ response.records[1].end_time = <<"0", "1", ":", "0", "6", ":", "4", "0">>
    /\ response.records[2].start_time = <<"0", "1", ":", "0", "6", ":", "4", "0">>
    /\ response.records[2].end_time = <<"0", "2", ":", "1", "3", ":", "2", "0">>
    /\ response.records[3].start_time = <<"0", "2", ":", "1", "3", ":", "2", "0">>
    /\ response.records[3].end_time = <<"0", "2", ":", "1", "5", ":", "0", "0">>

============================================================================
